---- MODULE Spec2Model ----
(***************************************************************************)
(* Model of app.py: the Connect Four relay server of the websockets        *)
(* tutorial.  One asyncio task (handler) per connection; tasks interleave  *)
(* only at their await points, so every action below is the code between   *)
(* two awaits of one handler.  The Connect4 class (connect4.py) is         *)
(* imported by app.py; it is modelled from the specification's Board       *)
(* Engine contract.                                                        *)
(***************************************************************************)
EXTENDS Integers, Sequences, FiniteSets, TLC

\* ------------------------------------------------------------------ bounds
\* Number of connections the listener accepts in a run.
NConn == 3

\* ------------------------------------------------------------ Board Engine
\* The grid of Connect4 has a fixed width and height (7 x 6 in the tutorial;
\* the engine contract is stated for any W x H).  The relay is checked on a
\* grid of one column of two rows, the smallest on which a watcher can join
\* between two moves and a column can fill up; a game is played to its end on
\* a column of GameH rows, high enough for a line of Connect marks and one
\* more move.
W == 1
H == 2
GameH == 5
\* Marks in a line that win the game.
Connect == 4
\* The engine is checked on all four axes on a grid of two columns of two
\* rows with lines of two marks: every axis then has a line, a column can
\* fill up, and a second line can be completed after the game is won.
Grid == [width |-> 2, height |-> 2, connect |-> 2]

PLAYER1 == "red"
PLAYER2 == "yellow"
None == "none"

Conn == 1..NConn
\* Tokens a client may present: 0 is never issued, c is issued to creator c.
Tokens == 0..NConn

NoRef == [game |-> 0, connected |-> 0]

VARIABLES
    pc,         \* pc[c]: where handler c is suspended
    role,       \* role[c]: branch handler c took ("none" until selected)
    open,       \* open[c]: the connection is in the OPEN state
    ref,        \* ref[c]: the handler's locals (game, connected)
    JOIN,       \* join key  -> (game, connected)
    WATCH,      \* watch key -> (game, connected)
    game,       \* game[g]: the Connect4 object created by creator g
    connected,  \* connected[s]: the connection set created by creator s
    recvd,      \* recvd[c]: what has been sent on connection c, in order,
                \*           while its handler runs
    snap,       \* snap[c]: the copy of game.moves replay iterates
    idx,        \* idx[c]: number of snapshot moves replay has sent
    key,        \* key[c]: the handler's local join_key / watch_key
    board       \* the grid of Connect4: [width, height, connect]

vars == <<pc, role, open, ref, JOIN, WATCH, game, connected, recvd, snap, idx,
          key, board>>

Columns == 0..(board.width - 1)
Rows == 0..(board.height - 1)

\* ----------------------------------------------------------- wire events
InitEvent(join, watch) == [type |-> "init", join |-> join, watch |-> watch]
PlayEvent(player, column, row) ==
    [type |-> "play", player |-> player, column |-> column, row |-> row]
WinEvent(player) == [type |-> "win", player |-> player]
ErrorEvent(message) == [type |-> "error", message |-> message]

GameNotFound == "Game not found"
SlotFull == "This slot is full."

\* websocket.send(event) of handler `from` on connection c: the frame is
\* written to c.  (from, via) record who sent it and how.
Send(rc, c, event, from) ==
    [rc EXCEPT ![c] = Append(@, [event |-> event, from |-> from, via |-> "send"])]

\* Mutant of Broadcast: the sender is left out.
BroadcastToOthers(rc, conns, event, from) ==
    [x \in Conn |->
        IF x \in conns /\ open[x] /\ x # from
        THEN Append(rc[x], [event |-> event, from |-> from, via |-> "broadcast"])
        ELSE rc[x]]

\* websockets.broadcast(conns, event): written, without suspending, to every
\* connection of the set that is OPEN; the others are skipped.
Broadcast(rc, conns, event, from) ==
    [x \in Conn |->
        IF x \in conns /\ open[x]
        THEN Append(rc[x], [event |-> event, from |-> from, via |-> "broadcast"])
        ELSE rc[x]]

\* Connect4: a new game, the cells of its grid, and game.play.
NewGame == [moves |-> <<>>, winner |-> None]

\* The mark in cell (column, row), or None.
Cell(moves, column, row) ==
    IF \E i \in DOMAIN moves : moves[i].column = column /\ moves[i].row = row
    THEN (CHOOSE m \in {moves[i] : i \in DOMAIN moves} :
              m.column = column /\ m.row = row).player
    ELSE None

EmptyRows(moves, column) == {r \in Rows : Cell(moves, column, r) = None}

LowestEmptyRow(moves, column) ==
    CHOOSE r \in EmptyRows(moves, column) :
        \A q \in EmptyRows(moves, column) : r <= q

Axes == {<<1, 0>>, <<0, 1>>, <<1, 1>>, <<1, -1>>}

\* board.connect marks of player in a line through (column, row).
Wins(moves, player, column, row) ==
    \E d \in Axes : \E k \in 0..(board.connect - 1) :
        \A j \in 0..(board.connect - 1) :
            LET cc == column + (j - k) * d[1]
                rr == row + (j - k) * d[2]
            IN  /\ cc \in Columns
                /\ rr \in Rows
                /\ Cell(moves, cc, rr) = player

\* game.play(player, column): raises when the column is full, otherwise
\* places the mark, appends the move and sets the winner once.
GamePlay(g, player, column) ==
    IF EmptyRows(g.moves, column) = {}
    THEN [raised |-> TRUE, message |-> SlotFull, row |-> 0, game |-> g]
    ELSE LET row == LowestEmptyRow(g.moves, column)
             moves == Append(g.moves,
                        [player |-> player, column |-> column, row |-> row])
         IN  [raised |-> FALSE, message |-> "", row |-> row,
              game |-> [moves |-> moves,
                        winner |-> IF g.winner = None
                                      /\ Wins(moves, player, column, row)
                                   THEN player ELSE g.winner]]

\* ---------------------------------------------------------------- registry
\* secrets.token_urlsafe(12): a key no other session has.
NewToken(c) == c

Put(reg, token, value) ==
    [k \in DOMAIN reg \cup {token} |-> IF k = token THEN value ELSE reg[k]]
Del(reg, token) == [k \in DOMAIN reg \ {token} |-> reg[k]]

\* -------------------------------------------------------------------- Init
Init ==
    /\ pc = [c \in Conn |-> "AwaitingRole"]
    /\ role = [c \in Conn |-> "none"]
    /\ open = [c \in Conn |-> TRUE]
    /\ ref = [c \in Conn |-> NoRef]
    /\ JOIN = <<>>
    /\ WATCH = <<>>
    /\ game = [g \in Conn |-> NewGame]
    /\ connected = [s \in Conn |-> {}]
    /\ recvd = [c \in Conn |-> <<>>]
    /\ snap = [c \in Conn |-> <<>>]
    /\ idx = [c \in Conn |-> 0]
    /\ key = [c \in Conn |-> 0]
    /\ board = [width |-> W, height |-> H, connect |-> Connect]

\* Connections are accepted in the order of their numbers.
Accepted(c) == \A b \in Conn : b < c => pc[b] # "AwaitingRole"

\* The role-selection messages: an init event with any of the fields
\* "join" and "watch".
RoleMessages == UNION {[F -> Tokens] : F \in SUBSET {"join", "watch"}}

\* What the client of connection c can present as a token: the never issued
\* token 0 or the token of an earlier connection.  (No later connection has
\* started a game when the first message of c is served, so every other
\* token is as unknown as 0.)
Presentable(c, event) == \A f \in DOMAIN event : event[f] < c

\* ------------------------------------------------------------------ memory
\* A Connect4 object or a connection set lives while a handler's locals or a
\* registry entry refer to it; afterwards nothing can read it and it is
\* freed (here: reset to its initial value).
Referenced(field, s, refs, join, watch) ==
    \/ \E c \in Conn : refs[c][field] = s
    \/ \E k \in DOMAIN join : join[k][field] = s
    \/ \E k \in DOMAIN watch : watch[k][field] = s

FreeGames(games, refs, join, watch) ==
    [g \in Conn |-> IF Referenced("game", g, refs, join, watch)
                    THEN games[g] ELSE NewGame]

FreeSets(sets, refs, join, watch) ==
    [s \in Conn |-> IF Referenced("connected", s, refs, join, watch)
                    THEN sets[s] ELSE {}]

\* The handler returns or raises: its locals are gone, the server closes the
\* connection and the connection object, with what was sent on it, is gone.
Return(c) ==
    /\ pc' = [pc EXCEPT ![c] = "Closed"]
    /\ role' = [role EXCEPT ![c] = "none"]
    /\ open' = [open EXCEPT ![c] = FALSE]
    /\ recvd' = [recvd EXCEPT ![c] = <<>>]
    /\ snap' = [snap EXCEPT ![c] = <<>>]
    /\ idx' = [idx EXCEPT ![c] = 0]
    /\ key' = [key EXCEPT ![c] = 0]
    /\ UNCHANGED board

\* ------------------------------------------------------------ start / join
\* start(websocket) up to its first await in play.
Start(c) ==
    /\ game' = [game EXCEPT ![c] = NewGame]
    /\ connected' = [connected EXCEPT ![c] = {c}]
    /\ JOIN' = Put(JOIN, NewToken(c), [game |-> c, connected |-> c])
    /\ WATCH' = Put(WATCH, NewToken(c), [game |-> c, connected |-> c])
    /\ recvd' = Send(recvd, c, InitEvent(NewToken(c), NewToken(c)), c)
    /\ ref' = [ref EXCEPT ![c] = [game |-> c, connected |-> c]]
    /\ role' = [role EXCEPT ![c] = "creator"]
    /\ key' = [key EXCEPT ![c] = NewToken(c)]
    /\ pc' = [pc EXCEPT ![c] = "Playing"]
    /\ UNCHANGED <<open, snap, idx, board>>

\* Mutant of Join: an unknown key ends the handler without an error event.
JoinSilent(c, join_key) ==
    /\ key' = [key EXCEPT ![c] = join_key]
    /\ UNCHANGED board
    /\ IF join_key \notin DOMAIN JOIN
       THEN /\ role' = [role EXCEPT ![c] = "joiner"]
            /\ pc' = [pc EXCEPT ![c] = "NotFound"]
            /\ UNCHANGED <<open, ref, JOIN, WATCH, game, connected, recvd,
                           snap, idx>>
       ELSE /\ ref' = [ref EXCEPT ![c] = JOIN[join_key]]
            /\ connected' = [connected EXCEPT ![JOIN[join_key].connected] = @ \cup {c}]
            /\ role' = [role EXCEPT ![c] = "joiner"]
            /\ pc' = [pc EXCEPT ![c] = "Playing"]
            /\ UNCHANGED <<open, JOIN, WATCH, game, recvd, snap, idx>>

\* join(websocket, join_key) up to its first await.
Join(c, join_key) ==
    /\ key' = [key EXCEPT ![c] = join_key]
    /\ UNCHANGED board
    /\ IF join_key \notin DOMAIN JOIN
       THEN /\ recvd' = Send(recvd, c, ErrorEvent(GameNotFound), c)
            /\ role' = [role EXCEPT ![c] = "joiner"]
            /\ pc' = [pc EXCEPT ![c] = "NotFound"]
            /\ UNCHANGED <<open, ref, JOIN, WATCH, game, connected, snap, idx>>
       ELSE /\ ref' = [ref EXCEPT ![c] = JOIN[join_key]]
            /\ connected' = [connected EXCEPT ![JOIN[join_key].connected] = @ \cup {c}]
            /\ role' = [role EXCEPT ![c] = "joiner"]
            /\ pc' = [pc EXCEPT ![c] = "Playing"]
            /\ UNCHANGED <<open, JOIN, WATCH, game, recvd, snap, idx>>

\* watch(websocket, watch_key) up to the first await of replay: the
\* connection is subscribed and the copy of game.moves is taken.
Watch(c, watch_key) ==
    /\ key' = [key EXCEPT ![c] = watch_key]
    /\ UNCHANGED board
    /\ IF watch_key \notin DOMAIN WATCH
       THEN /\ recvd' = Send(recvd, c, ErrorEvent(GameNotFound), c)
            /\ role' = [role EXCEPT ![c] = "watcher"]
            /\ pc' = [pc EXCEPT ![c] = "NotFound"]
            /\ UNCHANGED <<open, ref, JOIN, WATCH, game, connected, snap, idx>>
       ELSE /\ ref' = [ref EXCEPT ![c] = WATCH[watch_key]]
            /\ connected' = [connected EXCEPT ![WATCH[watch_key].connected] = @ \cup {c}]
            /\ snap' = [snap EXCEPT ![c] = game[WATCH[watch_key].game].moves]
            /\ idx' = [idx EXCEPT ![c] = 0]
            /\ role' = [role EXCEPT ![c] = "watcher"]
            /\ pc' = [pc EXCEPT ![c] = "Watching"]
            /\ UNCHANGED <<open, JOIN, WATCH, game, recvd>>

\* handler(websocket): the first message arrives and selects the branch.
Handler(c, event) ==
    /\ pc[c] = "AwaitingRole"
    /\ Accepted(c)
    /\ open[c]
    /\ Presentable(c, event)
    /\ IF "join" \in DOMAIN event THEN Join(c, event["join"])
       ELSE IF "watch" \in DOMAIN event THEN Watch(c, event["watch"])
       ELSE Start(c)

\* handler(websocket): the first message is not an init event (json.loads or
\* the assert raises), or the connection closes before any message.
HandlerAbort(c) ==
    /\ pc[c] = "AwaitingRole"
    /\ Accepted(c)
    /\ Return(c)
    /\ UNCHANGED <<ref, JOIN, WATCH, game, connected>>

\* Mutant of NotFoundReturn: the handler waits for the peer to close.
NotFoundReturnAwaitsClose(c) ==
    /\ pc[c] = "NotFound"
    /\ ~open[c]
    /\ Return(c)
    /\ UNCHANGED <<ref, JOIN, WATCH, game, connected>>

\* error(websocket, "Game not found") has sent its event: join or watch
\* returns, and so does handler.
NotFoundReturn(c) ==
    /\ pc[c] = "NotFound"
    /\ Return(c)
    /\ UNCHANGED <<ref, JOIN, WATCH, game, connected>>

\* ------------------------------------------------------------------- play
PlayerOf(c) == IF role[c] = "creator" THEN PLAYER1 ELSE PLAYER2

RECURSIVE SumMoves(_)
SumMoves(S) ==
    IF S = {} THEN 0
    ELSE LET g == CHOOSE x \in S : TRUE
         IN  Len(game[g].moves) + SumMoves(S \ {g})

\* Move requests served so far: the accepted ones are in a history, the
\* rejected ones are the error events on the players' connections.
Requests ==
    SumMoves(Conn)
    + Cardinality(UNION {{<<c, i>> : i \in {j \in DOMAIN recvd[c] :
                              recvd[c][j].event.type = "error"}} : c \in Conn})

\* Mutant of PlayRejected: the error event goes to the whole connection set.
PlayRejectedToAll(c, r) ==
    /\ recvd' = Broadcast(recvd, connected[ref[c].connected],
                          ErrorEvent(r.message), c)
    /\ UNCHANGED game

\* Mutant of PlayRejected: no `continue`, so the play event is broadcast too.
PlayRejectedFallsThrough(c, r) ==
    /\ recvd' = Broadcast(Send(recvd, c, ErrorEvent(r.message), c),
                          connected[ref[c].connected],
                          PlayEvent(PlayerOf(c), 0, r.row), c)
    /\ UNCHANGED game

\* play, the except clause: game.play raised RuntimeError; the error event is
\* sent to the requester and the loop continues.
PlayRejected(c, r) ==
    /\ recvd' = Send(recvd, c, ErrorEvent(r.message), c)
    /\ UNCHANGED game

\* Mutant of PlayAccepted: the events are sent to the requester only.
PlayAcceptedSendsToMover(c, column, r) ==
    /\ game' = [game EXCEPT ![ref[c].game] = r.game]
    /\ LET played == Send(recvd, c, PlayEvent(PlayerOf(c), column, r.row), c)
       IN  recvd' = IF r.game.winner # None
                    THEN Send(played, c, WinEvent(r.game.winner), c)
                    ELSE played

\* Mutant of PlayAccepted: the win event names the player who moved.
PlayAcceptedWinNamesMover(c, column, r) ==
    /\ game' = [game EXCEPT ![ref[c].game] = r.game]
    /\ LET conns == connected[ref[c].connected]
           played == Broadcast(recvd, conns,
                         PlayEvent(PlayerOf(c), column, r.row), c)
       IN  recvd' = IF r.game.winner # None
                    THEN Broadcast(played, conns, WinEvent(PlayerOf(c)), c)
                    ELSE played

\* Mutant of PlayAccepted: the handler appends the move to the history too.
PlayAcceptedRecordsTwice(c, column, r) ==
    /\ game' = [game EXCEPT ![ref[c].game] =
                    [r.game EXCEPT !.moves = Append(@, @[Len(@)])]]
    /\ LET conns == connected[ref[c].connected]
           played == Broadcast(recvd, conns,
                         PlayEvent(PlayerOf(c), column, r.row), c)
       IN  recvd' = IF r.game.winner # None
                    THEN Broadcast(played, conns, WinEvent(r.game.winner), c)
                    ELSE played

\* play after game.play returned r.row: the play event is broadcast, and a win
\* event after it when the game has a winner.
PlayAccepted(c, column, r) ==
    /\ game' = [game EXCEPT ![ref[c].game] = r.game]
    /\ LET conns == connected[ref[c].connected]
           played == Broadcast(recvd, conns,
                         PlayEvent(PlayerOf(c), column, r.row), c)
       IN  recvd' = IF r.game.winner # None
                    THEN Broadcast(played, conns, WinEvent(r.game.winner), c)
                    ELSE played

\* The players of a run make as many move requests as fill the grid, and one
\* more.
Budget == board.width * board.height + 1

\* One iteration of play's loop: a move request for `column` arrives.
Play(c, column) ==
    /\ pc[c] = "Playing"
    /\ open[c]
    /\ Requests < Budget
    /\ LET r == GamePlay(game[ref[c].game], PlayerOf(c), column)
       IN  IF r.raised THEN PlayRejected(c, r) ELSE PlayAccepted(c, column, r)
    /\ UNCHANGED <<pc, role, open, ref, JOIN, WATCH, connected, snap, idx,
                   key, board>>

\* Mutant of StartFinally: the watch entry is left in the registry.
StartFinallyKeepsWatch(c) ==
    [join |-> Del(JOIN, NewToken(c)), watch |-> WATCH, connected |-> connected]

\* Mutant of StartFinally: the registry is emptied.
StartFinallyClearsRegistry(c) ==
    [join |-> <<>>, watch |-> <<>>, connected |-> connected]

\* Mutant of StartFinally: the join entry is left in the registry.
StartFinallyKeepsJoin(c) ==
    [join |-> JOIN, watch |-> Del(WATCH, NewToken(c)), connected |-> connected]

\* The finally clause of start: both registry entries are deleted.
StartFinally(c) ==
    [join |-> Del(JOIN, NewToken(c)), watch |-> Del(WATCH, NewToken(c)),
     connected |-> connected]

\* Mutant of Unsubscribe: the connection set is emptied.
UnsubscribeAll(c) ==
    [join |-> JOIN, watch |-> WATCH,
     connected |-> [connected EXCEPT ![ref[c].connected] = {}]]

\* The finally clause of join and of watch: connected.remove(websocket).
Unsubscribe(c) ==
    [join |-> JOIN, watch |-> WATCH,
     connected |-> [connected EXCEPT ![ref[c].connected] = @ \ {c}]]

\* The handler leaves with the shared state `after` its finally clause.
Leave(c, after) ==
    LET refs == [ref EXCEPT ![c] = NoRef]
    IN  /\ ref' = refs
        /\ JOIN' = after.join
        /\ WATCH' = after.watch
        /\ game' = FreeGames(game, refs, after.join, after.watch)
        /\ connected' = FreeSets(after.connected, refs, after.join, after.watch)
        /\ Return(c)

\* play's loop ends: the connection closed, or the message was malformed
\* and json.loads, the assert or the engine raised something else than
\* RuntimeError.  The finally clause of the caller runs.
PlayExit(c, violation) ==
    /\ pc[c] = "Playing"
    /\ IF violation THEN open[c] ELSE ~open[c]
    /\ Leave(c, IF role[c] = "creator" THEN StartFinally(c) ELSE Unsubscribe(c))

\* ----------------------------------------------------------------- replay
\* Mutant of ReplaySend: replay iterates the copy from its end.
ReplaySendReversed(c) ==
    /\ pc[c] = "Watching"
    /\ open[c]
    /\ idx[c] < Len(snap[c])
    /\ LET m == snap[c][Len(snap[c]) - idx[c]]
       IN  recvd' = Send(recvd, c, PlayEvent(m.player, m.column, m.row), c)
    /\ idx' = [idx EXCEPT ![c] = @ + 1]
    /\ UNCHANGED <<pc, role, open, ref, JOIN, WATCH, game, connected, snap,
                   key, board>>

\* Mutant of ReplaySend: replay broadcasts the move to the connection set.
ReplaySendToAll(c) ==
    /\ pc[c] = "Watching"
    /\ open[c]
    /\ idx[c] < Len(snap[c])
    /\ LET m == snap[c][idx[c] + 1]
       IN  recvd' = Broadcast(recvd, connected[ref[c].connected],
                              PlayEvent(m.player, m.column, m.row), c)
    /\ idx' = [idx EXCEPT ![c] = @ + 1]
    /\ UNCHANGED <<pc, role, open, ref, JOIN, WATCH, game, connected, snap,
                   key, board>>

\* Mutant of ReplaySend: replay iterates game.moves itself, not the copy.
ReplaySendLive(c) ==
    /\ pc[c] = "Watching"
    /\ open[c]
    /\ idx[c] < Len(game[ref[c].game].moves)
    /\ LET m == game[ref[c].game].moves[idx[c] + 1]
       IN  recvd' = Send(recvd, c, PlayEvent(m.player, m.column, m.row), c)
    /\ idx' = [idx EXCEPT ![c] = @ + 1]
    /\ UNCHANGED <<pc, role, open, ref, JOIN, WATCH, game, connected, snap,
                   key, board>>

\* One iteration of replay's loop: the next move of the copy is sent.
ReplaySend(c) ==
    /\ pc[c] = "Watching"
    /\ open[c]
    /\ idx[c] < Len(snap[c])
    /\ LET m == snap[c][idx[c] + 1]
       IN  recvd' = Send(recvd, c, PlayEvent(m.player, m.column, m.row), c)
    /\ idx' = [idx EXCEPT ![c] = @ + 1]
    /\ UNCHANGED <<pc, role, open, ref, JOIN, WATCH, game, connected, snap,
                   key, board>>

\* The connection closed: send raises or wait_closed returns, and the
\* finally clause of watch runs.
WatchExit(c) ==
    /\ pc[c] = "Watching"
    /\ ~open[c]
    /\ Leave(c, Unsubscribe(c))

\* ------------------------------------------------------------ environment
\* The peer closes connection c (or the network drops it) while its handler
\* is subscribed.  (Before the first message this is HandlerAbort; a handler
\* that answered "Game not found" returns whatever the peer does.)
Disconnect(c) ==
    /\ pc[c] \in {"Playing", "Watching"}
    /\ open[c]
    /\ open' = [open EXCEPT ![c] = FALSE]
    /\ UNCHANGED <<pc, role, ref, JOIN, WATCH, game, connected, recvd, snap, idx,
                   key, board>>

Next ==
    \/ \E c \in Conn : \E event \in RoleMessages : Handler(c, event)
    \/ \E c \in Conn : HandlerAbort(c)
    \/ \E c \in Conn : NotFoundReturn(c)
    \/ \E c \in Conn : \E column \in Columns : Play(c, column)
    \/ \E c \in Conn : \E violation \in BOOLEAN : PlayExit(c, violation)
    \/ \E c \in Conn : ReplaySend(c)
    \/ \E c \in Conn : WatchExit(c)
    \/ \E c \in Conn : Disconnect(c)

Spec == Init /\ [][Next]_vars

\* The event loop runs every task that is ready: a handler whose connection
\* has closed (its read, send or wait_closed finishes) and a handler that has
\* sent "Game not found" go on to their return.  Nothing makes a client send
\* a message or close its connection.
Fairness ==
    \A c \in Conn :
        /\ WF_vars(PlayExit(c, FALSE))
        /\ WF_vars(WatchExit(c))
        /\ WF_vars(NotFoundReturn(c))

SpecFair == Init /\ [][Next]_vars /\ Fairness

\* One game played to its end: the earlier connections have come and gone,
\* the last two play on a grid of height GameH.
InitGame ==
    /\ pc = [c \in Conn |-> IF c + 2 <= NConn THEN "Closed" ELSE "AwaitingRole"]
    /\ role = [c \in Conn |-> "none"]
    /\ open = [c \in Conn |-> c + 2 > NConn]
    /\ ref = [c \in Conn |-> NoRef]
    /\ JOIN = <<>>
    /\ WATCH = <<>>
    /\ game = [g \in Conn |-> NewGame]
    /\ connected = [s \in Conn |-> {}]
    /\ recvd = [c \in Conn |-> <<>>]
    /\ snap = [c \in Conn |-> <<>>]
    /\ idx = [c \in Conn |-> 0]
    /\ key = [c \in Conn |-> 0]
    /\ board = [width |-> W, height |-> GameH, connect |-> Connect]

SpecGame == InitGame /\ [][Next]_vars

\* The same two connections on the grid Grid.
InitGrid ==
    /\ pc = [c \in Conn |-> IF c + 2 <= NConn THEN "Closed" ELSE "AwaitingRole"]
    /\ role = [c \in Conn |-> "none"]
    /\ open = [c \in Conn |-> c + 2 > NConn]
    /\ ref = [c \in Conn |-> NoRef]
    /\ JOIN = <<>>
    /\ WATCH = <<>>
    /\ game = [g \in Conn |-> NewGame]
    /\ connected = [s \in Conn |-> {}]
    /\ recvd = [c \in Conn |-> <<>>]
    /\ snap = [c \in Conn |-> <<>>]
    /\ idx = [c \in Conn |-> 0]
    /\ key = [c \in Conn |-> 0]
    /\ board = Grid

SpecGrid == InitGrid /\ [][Next]_vars

\* ------------------------------------------------------------------ claims
\* How many times the play event of move m is in what connection c received.
Delivered(c, m) ==
    Cardinality({i \in DOMAIN recvd[c] :
        recvd[c][i].event = PlayEvent(m.player, m.column, m.row)})

\* A watcher that resolved its token and is still connected.
LiveWatcher(c) == pc[c] = "Watching" /\ open[c]

\* C1: a watcher that stays connected receives every move of the session
\* exactly once across replay and live broadcasts: at any moment the moves it
\* has not received are exactly those replay has still to send, and once
\* replay is done it has every move of the history once.
C1_WatcherGetsEveryMoveOnce ==
    \A c \in Conn : LiveWatcher(c) =>
        LET moves == game[ref[c].game].moves
        IN  \A k \in DOMAIN moves :
                Delivered(c, moves[k]) =
                    IF k \in (idx[c] + 1)..Len(snap[c]) THEN 0 ELSE 1

\* C1 witness: a watcher joined after a move, a later move was broadcast to it
\* before replay sent the earlier one, and replay is done.
C1_Witness ==
    \E c \in Conn :
        /\ LiveWatcher(c)
        /\ Len(snap[c]) >= 1
        /\ idx[c] = Len(snap[c])
        /\ Len(game[ref[c].game].moves) > Len(snap[c])
        /\ recvd[c][1].via = "broadcast"

\* The handlers in the move loop of game g.
Players(g) == {c \in Conn : pc[c] = "Playing" /\ ref[c].game = g}

\* C2: at most two connections are in the move loop of one session.
C2_AtMostTwoPlayers ==
    \A g \in Conn : Cardinality(Players(g)) <= 2

\* A join or watch request of connection c is served in this step.
Resolves(c) ==
    /\ pc[c] = "AwaitingRole"
    /\ role'[c] \in {"joiner", "watcher"}

\* C3: a join or watch request carrying the token of a session whose creator's
\* handler has exited gets "Game not found" and nothing else, and a request
\* that is served is served with the session its token was issued for, whose
\* creator is still in its move loop.
C3_DestroyedTokenNotFound ==
    [][\A c \in Conn : Resolves(c) =>
          /\ (key'[c] \in Conn /\ pc[key'[c]] = "Closed") =>
                /\ pc'[c] = "NotFound"
                /\ recvd'[c] = Send(recvd, c, ErrorEvent(GameNotFound), c)[c]
                /\ ref'[c] = NoRef
          /\ pc'[c] # "NotFound" =>
                /\ key'[c] \in Conn
                /\ pc[key'[c]] = "Playing"
                /\ role[key'[c]] = "creator"
                /\ ref'[c] = [game |-> key'[c], connected |-> key'[c]]
      ]_vars

\* C3 witness: the creator of a game has exited while another handler still
\* holds the game, and a request carrying its token has been answered
\* "Game not found".
C3_Witness ==
    \E c \in Conn : \E p \in Conn :
        /\ pc[c] = "NotFound"
        /\ key[c] \in Conn
        /\ pc[key[c]] = "Closed"
        /\ ref[p].game = key[c]
        /\ recvd[c] = <<[event |-> ErrorEvent(GameNotFound), from |-> c,
                         via |-> "send"]>>

\* The events appended to connection c in this step.
NewEvents(c) ==
    IF Len(recvd'[c]) > Len(recvd[c])
    THEN SubSeq(recvd'[c], Len(recvd[c]) + 1, Len(recvd'[c]))
    ELSE <<>>

\* A move is appended to the history of game g in this step.
MoveApplied(g) == Len(game'[g].moves) = Len(game[g].moves) + 1

\* The events appended to connection c in this step, as sent on the wire.
NewPayloads(c) == [i \in DOMAIN NewEvents(c) |-> NewEvents(c)[i].event]

\* C4: every accepted move is followed, on each open subscriber, by its play
\* event and then by a win event exactly when the move newly set the winner.
C4_WinOnlyOnNewWinner ==
    [][\A g \in Conn : MoveApplied(g) =>
          LET m == game'[g].moves[Len(game'[g].moves)]
              play == PlayEvent(m.player, m.column, m.row)
              newly == game[g].winner = None /\ game'[g].winner # None
          IN  \A c \in connected[g] : open[c] =>
                  NewPayloads(c) = IF newly
                                   THEN <<play, WinEvent(m.player)>>
                                   ELSE <<play>>
      ]_vars

\* The play events connection c received by broadcast, in the order received.
IsBroadcastPlay(d) == d.via = "broadcast" /\ d.event.type = "play"
BroadcastPlays(c) == SelectSeq(recvd[c], IsBroadcastPlay)

\* C5: on every subscribed connection the broadcast play events are a run of
\* consecutive moves of the history, in history order, and on a connection
\* that is still open the run ends with the latest move.
C5_BroadcastInHistoryOrder ==
    \A c \in Conn : ref[c] # NoRef =>
        LET moves == game[ref[c].game].moves
            plays == BroadcastPlays(c)
        IN  \E a \in 0..Len(moves) :
                /\ a + Len(plays) <= Len(moves)
                /\ open[c] => a + Len(plays) = Len(moves)
                /\ \A i \in DOMAIN plays :
                       plays[i].event = PlayEvent(moves[a + i].player,
                                            moves[a + i].column, moves[a + i].row)

\* C5 witness: a connection received the broadcasts of two moves made by the
\* two players of its session.
C5_Witness ==
    \E c \in Conn :
        /\ ref[c] # NoRef
        /\ open[c]
        /\ Len(BroadcastPlays(c)) >= 2
        /\ BroadcastPlays(c)[1].from # BroadcastPlays(c)[2].from

\* Connection c, in its move loop, is sent an error event in this step.
Rejected(c) ==
    /\ pc[c] = "Playing"
    /\ \E i \in DOMAIN NewEvents(c) : NewEvents(c)[i].event.type = "error"

\* C6: a rejected move changes no game, sends one error event to the
\* requester and nothing to anyone else, and leaves the requester in its move
\* loop; and a move is only applied to a column that was not full.
C6_RejectedMoveChangesNothing ==
    [][/\ \A c \in Conn : Rejected(c) =>
             /\ game' = game
             /\ recvd' = Send(recvd, c, ErrorEvent(SlotFull), c)
             /\ pc'[c] = "Playing"
             /\ open'[c]
             /\ connected' = connected
       /\ \A g \in Conn : MoveApplied(g) =>
             EmptyRows(game[g].moves,
                       game'[g].moves[Len(game'[g].moves)].column) # {}
      ]_vars

\* C6 witness: a player has been sent the error of a full column while
\* another open connection of its session has received only play events.
C6_Witness ==
    \E c \in Conn : \E x \in Conn :
        /\ pc[c] = "Playing"
        /\ x # c
        /\ open[x]
        /\ ref[x] = ref[c]
        /\ Len(recvd[c]) >= 1
        /\ recvd[c][Len(recvd[c])].event = ErrorEvent(SlotFull)
        /\ Len(game[ref[c].game].moves) = board.height
        /\ \A i \in DOMAIN recvd[x] : recvd[x][i].event.type # "error"

\* The registry a request of that role is looked up in.
Registry(r) == IF r = "joiner" THEN JOIN ELSE WATCH

\* C7: a join or watch request whose token is not in the registry gets one
\* "Game not found" error event and nothing else, subscribes to nothing and
\* changes neither the registry nor a game; the handler then only terminates.
C7_UnknownTokenOneError ==
    [][\A c \in Conn :
          /\ (Resolves(c) /\ key'[c] \notin DOMAIN Registry(role'[c])) =>
                /\ pc'[c] = "NotFound"
                /\ recvd' = Send(recvd, c, ErrorEvent(GameNotFound), c)
                /\ Len(recvd'[c]) = 1
                /\ UNCHANGED <<JOIN, WATCH, game, connected>>
          /\ pc[c] = "NotFound" =>
                /\ \A s \in Conn : c \notin connected[s]
                /\ pc'[c] \in {"NotFound", "Closed"}
                /\ pc'[c] = "NotFound" => recvd'[c] = recvd[c]
      ]_vars

\* C7 witness: a request with a token that was never issued has been answered.
C7_Witness ==
    \E c \in Conn :
        /\ pc[c] = "NotFound"
        /\ key[c] = 0
        /\ Len(recvd[c]) = 1
        /\ recvd[c][1].event = ErrorEvent(GameNotFound)

\* C8: a connection whose handler has exited is in no connection set.
C8_ExitedNotSubscribed ==
    \A c \in Conn : pc[c] = "Closed" => \A s \in Conn : c \notin connected[s]

\* C9: once the creator of a game has exited, no move is applied to the game
\* and no play or win event is broadcast to its connection set.
C9_NoMoveAfterCreatorExit ==
    [][\A g \in Conn : pc[g] = "Closed" =>
          /\ ~MoveApplied(g)
          /\ \A c \in connected[g] : \A i \in DOMAIN NewEvents(c) :
                 NewEvents(c)[i].via # "broadcast"
      ]_vars

\* C10: every error event a connection received was sent to it alone, by its
\* own handler.
C10_ErrorsOnlyToRequester ==
    \A c \in Conn : \A i \in DOMAIN recvd[c] :
        recvd[c][i].event.type = "error" =>
            /\ recvd[c][i].from = c
            /\ recvd[c][i].via = "send"

\* C10 witness: a player was sent an error event while another connection of
\* its session, open all along, has none.
C10_Witness ==
    \E c \in Conn : \E x \in Conn :
        /\ x # c
        /\ ref[x] = ref[c]
        /\ ref[c] # NoRef
        /\ open[x]
        /\ \E i \in DOMAIN recvd[c] : recvd[c][i].event.type = "error"
        /\ Len(recvd[x]) >= 1
        /\ \A i \in DOMAIN recvd[x] : recvd[x][i].event.type # "error"

\* C11: in the step that serves the first message of a connection (the step
\* is Handler(c, event) for the message it served), the message selects exactly one role: no field makes a creator
\* with a new session, a join field alone a joiner, a watch field alone a
\* watcher; a message with both fields ends the handler, which creates, joins
\* and watches nothing.
C11_RoleSelection ==
    [][\A c \in Conn : \A event \in RoleMessages : Handler(c, event) =>
          LET fields == DOMAIN event
          IN  /\ fields = {} =>
                    /\ role'[c] = "creator"
                    /\ NewToken(c) \in DOMAIN JOIN' \cap DOMAIN WATCH'
              /\ fields = {"join"} => role'[c] = "joiner"
              /\ fields = {"watch"} => role'[c] = "watcher"
              /\ fields = {"join", "watch"} =>
                    /\ pc'[c] = "Closed"
                    /\ role'[c] = "none"
                    /\ UNCHANGED <<JOIN, WATCH, game, connected, ref>>
      ]_vars

\* The creator's handler of the session with token t is running.
CreatorAlive(t) == t \in Conn /\ pc[t] = "Playing" /\ role[t] = "creator"

\* C12: for every token, the join entry exists iff the watch entry exists iff
\* the creator's handler of its session has not exited, and both entries hold
\* the same game and connection set, the ones the creator holds.
C12_RegistryConsistent ==
    \A t \in Tokens :
        /\ (t \in DOMAIN JOIN) = (t \in DOMAIN WATCH)
        /\ (t \in DOMAIN JOIN) = CreatorAlive(t)
        /\ t \in DOMAIN JOIN =>
              /\ JOIN[t] = WATCH[t]
              /\ JOIN[t] = ref[t]
              /\ t \in connected[JOIN[t].connected]

\* C12 witness: one session is registered while another one, destroyed by its
\* creator's exit, is still held by a handler that joined it.
C12_Witness ==
    \E t \in Conn : \E d \in Conn : \E p \in Conn :
        /\ t \in DOMAIN JOIN
        /\ t \in DOMAIN WATCH
        /\ d # t
        /\ pc[d] = "Closed"
        /\ pc[p] \in {"Playing", "Watching"}
        /\ ref[p].game = d
        /\ d \notin DOMAIN JOIN \cup DOMAIN WATCH

\* The moves of history `moves` before the i-th that went to the same column.
Below(moves, i) == {j \in 1..(i - 1) : moves[j].column = moves[i].column}

\* C13: in every history, whoever made the moves, the row of each move is the
\* number of earlier moves in its column: the rows of a column are 0, 1, 2, ...
\* in order, below the height of the grid, and no cell is in the history
\* twice.
C13_RowsFillFromBottom ==
    \A g \in Conn :
        LET moves == game[g].moves
        IN  \A i \in DOMAIN moves :
                /\ moves[i].column \in Columns
                /\ moves[i].row \in Rows
                /\ moves[i].row = Cardinality(Below(moves, i))
                /\ \A j \in DOMAIN moves :
                       (moves[j].column = moves[i].column
                        /\ moves[j].row = moves[i].row) => j = i

\* C13 witness: both players have moved, one column is full and was refused
\* a further mark, and the other column holds a mark.
C13_Witness ==
    \E g \in Conn : \E c \in Conn :
        LET moves == game[g].moves
        IN  /\ \E i \in DOMAIN moves : moves[i].player = PLAYER1
            /\ \E i \in DOMAIN moves : moves[i].player = PLAYER2
            /\ \E k \in Columns : EmptyRows(moves, k) = {}
            /\ \E k \in Columns : Cardinality(EmptyRows(moves, k)) = 1
            /\ ref[c].game = g
            /\ \E i \in DOMAIN recvd[c] : recvd[c][i].event = ErrorEvent(SlotFull)

\* Player has board.connect marks in a line somewhere on the grid that the
\* history `moves` describes.
HasLine(moves, player) ==
    \E column \in Columns : \E row \in Rows : \E d \in Axes :
        \A j \in 0..(board.connect - 1) :
            /\ column + j * d[1] \in Columns
            /\ row + j * d[2] \in Rows
            /\ Cell(moves, column + j * d[1], row + j * d[2]) = player

\* The moves of `moves` after which some player has a line.
Won(moves) ==
    {n \in DOMAIN moves :
        \E p \in {PLAYER1, PLAYER2} : HasLine(SubSeq(moves, 1, n), p)}

\* The player who completed the first line of the history, or None.
FirstWinner(moves) ==
    IF Won(moves) = {} THEN None
    ELSE LET n == CHOOSE k \in Won(moves) : \A q \in Won(moves) : k <= q
         IN  CHOOSE p \in {PLAYER1, PLAYER2} : HasLine(SubSeq(moves, 1, n), p)

\* C14: the winner of a game is the player whose move first completed a line
\* (on any axis), from that move on and whatever moves are accepted or
\* rejected afterwards; it is None before; and every win event names that
\* player.
C14_WinnerWriteOnce ==
    /\ \A g \in Conn : game[g].winner = FirstWinner(game[g].moves)
    /\ \A c \in Conn : ref[c] # NoRef =>
           \A i \in DOMAIN recvd[c] : recvd[c][i].event.type = "win" =>
               recvd[c][i].event.player = FirstWinner(game[ref[c].game].moves)

\* C14 witness: a player has won, the other player has completed a line of
\* their own afterwards, a further move was rejected, and the winner is still
\* the first.
C14_Witness ==
    \E g \in Conn : \E c \in Conn :
        /\ game[g].winner = PLAYER1
        /\ HasLine(game[g].moves, PLAYER2)
        /\ ref[c].game = g
        /\ \E i \in DOMAIN recvd[c] : recvd[c][i].event = ErrorEvent(SlotFull)
        /\ recvd[c][Len(recvd[c])].event = WinEvent(PLAYER1)

\* The handler of creator g exits in this step: its session is destroyed.
Destroyed(g) == CreatorAlive(g) /\ pc'[g] = "Closed"

\* C15: the step that destroys a session leaves the registry entries, the
\* game and the connection set of every other live session as they were, and
\* a play or win event broadcast in a step reaches only connections of the
\* session whose game the move was applied to.
C15_SessionsIsolated ==
    [][/\ \A g \in Conn : Destroyed(g) =>
             \A h \in Conn \ {g} : CreatorAlive(h) =>
                 /\ h \in DOMAIN JOIN' \cap DOMAIN WATCH'
                 /\ JOIN'[h] = JOIN[h]
                 /\ WATCH'[h] = WATCH[h]
                 /\ game'[h] = game[h]
                 /\ connected'[h] = connected[h]
                 /\ recvd'[h] = recvd[h]
       /\ \A c \in Conn : \A i \in DOMAIN NewEvents(c) :
             NewEvents(c)[i].event.type \in {"play", "win"}
             /\ NewEvents(c)[i].via = "broadcast" =>
                 /\ ref[c] # NoRef
                 /\ ref[c] = ref[NewEvents(c)[i].from]
                 /\ MoveApplied(ref[c].game)
                 /\ \A g \in Conn \ {ref[c].game} : game'[g] = game[g]
      ]_vars

\* C15 witness: two sessions were live together, each has a move, the
\* creator of one has exited, and a joiner of that one has received nothing
\* of the other, which is still registered.
C15_Witness ==
    \E d \in Conn : \E h \in Conn : \E p \in Conn :
        /\ pc[d] = "Closed"
        /\ ref[p].game = d
        /\ h < p
        /\ CreatorAlive(h)
        /\ h \in DOMAIN JOIN
        /\ Len(game[d].moves) >= 1
        /\ Len(game[h].moves) >= 1
        /\ Len(recvd[h]) = 2
        /\ \A i \in DOMAIN recvd[p] : recvd[p][i].from \in {d, p}

\* Connection c runs into an error in this step: its move is rejected, its
\* token is not found (and its handler returns), its first message is
\* malformed, or, a joiner, its move request is malformed.
ErrorStep(c) ==
    \/ Rejected(c)
    \/ pc[c] = "AwaitingRole" /\ pc'[c] = "NotFound"
    \/ NotFoundReturn(c)
    \/ HandlerAbort(c)
    \/ role[c] = "joiner" /\ PlayExit(c, TRUE)

\* C16: an error of connection c (other than the creator leaving its move
\* loop) removes no registry entry, removes no other connection from a
\* connection set that is still in use, changes no game that is still in use,
\* and leaves every other handler where it is, its connection as it is.
C16_ErrorsAbortNoSession ==
    [][\A c \in Conn : ErrorStep(c) =>
          /\ JOIN' = JOIN
          /\ WATCH' = WATCH
          /\ \A x \in Conn \ {c} :
                /\ pc'[x] = pc[x]
                /\ open'[x] = open[x]
                /\ ref'[x] = ref[x]
                /\ recvd'[x] = recvd[x]
          /\ \A s \in Conn :
                /\ Referenced("connected", s, ref', JOIN', WATCH') =>
                       connected'[s] \ {c} = connected[s] \ {c}
                /\ Referenced("game", s, ref', JOIN', WATCH') =>
                       game'[s] = game[s]
      ]_vars

\* C16 witness: the creator's move was rejected and the joiner, whose move
\* the watcher received, has left; the session is still registered and the
\* creator and the watcher are still subscribed and running.
C16_Witness ==
    \E g \in Conn : \E j \in Conn : \E w \in Conn :
        /\ CreatorAlive(g)
        /\ g \in DOMAIN JOIN \cap DOMAIN WATCH
        /\ \E i \in DOMAIN recvd[g] : recvd[g][i].event = ErrorEvent(SlotFull)
        /\ pc[j] = "Closed"
        /\ LiveWatcher(w)
        /\ ref[w].game = g
        /\ \E i \in DOMAIN recvd[w] :
               recvd[w][i].from = j /\ recvd[w][i].via = "broadcast"
        /\ connected[g] = {g, w}

\* The play events sent (not broadcast) on connection c, in the order sent.
IsSentPlay(d) == d.via = "send" /\ d.event.type = "play"
SentPlays(c) == SelectSeq(recvd[c], IsSentPlay)

\* C17: what replay has sent to a watcher is, in history order, a prefix of
\* the moves that were in the history when the watcher was subscribed (the
\* moves never broadcast to it), all of them once replay is done; a move
\* applied later is not among them; and a play event is sent, rather than
\* broadcast, only by replay on the watcher's own connection.
C17_ReplayIsSnapshot ==
    /\ \A c \in Conn : LiveWatcher(c) =>
           LET moves == game[ref[c].game].moves
               sent == SentPlays(c)
               before == Len(moves) - Len(BroadcastPlays(c))
           IN  /\ Len(sent) <= before
               /\ idx[c] = Len(snap[c]) => Len(sent) = before
               /\ \A i \in DOMAIN sent :
                      sent[i].event = PlayEvent(moves[i].player,
                                          moves[i].column, moves[i].row)
    /\ \A c \in Conn : \A i \in DOMAIN recvd[c] : IsSentPlay(recvd[c][i]) =>
           /\ recvd[c][i].from = c
           /\ role[c] = "watcher"

\* C17 witness: a move was applied and broadcast to the watcher while replay
\* was still sending, and replay has then sent the one earlier move.
C17_Witness ==
    \E c \in Conn :
        /\ LiveWatcher(c)
        /\ idx[c] = Len(snap[c])
        /\ Len(SentPlays(c)) >= 1
        /\ Len(BroadcastPlays(c)) >= 1
        /\ recvd[c][Len(recvd[c])].via = "send"
        /\ \A x \in Conn \ {c} : SentPlays(x) = <<>>

\* The place in history `moves` of the move that play event e reports.
Pos(moves, e) ==
    CHOOSE k \in DOMAIN moves :
        e = PlayEvent(moves[k].player, moves[k].column, moves[k].row)

\* Connection c received the play event of a later move (at i) before the
\* play event of an earlier move (at j).
OutOfOrder(c, i, j) ==
    /\ i < j
    /\ recvd[c][i].event.type = "play"
    /\ recvd[c][j].event.type = "play"
    /\ Pos(game[ref[c].game].moves, recvd[c][i].event)
           > Pos(game[ref[c].game].moves, recvd[c][j].event)

\* C18: a watcher can receive play events out of history order, and when it
\* does, the later move came by live broadcast and the earlier one by replay:
\* the race between replay and broadcast is the one source of disorder.  (The
\* execution the claim asserts is the one that reaches C18_Witness.)
C18_DisorderOnlyByReplayRace ==
    \A c \in Conn : ref[c] # NoRef =>
        \A i \in DOMAIN recvd[c] : \A j \in DOMAIN recvd[c] :
            OutOfOrder(c, i, j) =>
                /\ role[c] = "watcher"
                /\ recvd[c][i].via = "broadcast"
                /\ recvd[c][j].via = "send"

\* C18 witness: a watcher has received the broadcast of the second move
\* before the replayed first move.
C18_Witness ==
    \E c \in Conn : \E i \in DOMAIN recvd[c] : \E j \in DOMAIN recvd[c] :
        /\ pc[c] = "Watching"
        /\ OutOfOrder(c, i, j)
        /\ recvd[c][i].via = "broadcast"
        /\ recvd[c][i].from # c
        /\ recvd[c][j].via = "send"
        /\ recvd[c][j].from = c

\* The play events that report the moves of history `moves`, in order.
HistoryEvents(moves) ==
    [i \in DOMAIN moves |->
        PlayEvent(moves[i].player, moves[i].column, moves[i].row)]

\* The play events broadcast to connection c, as sent on the wire.
BroadcastPayloads(c) ==
    [i \in DOMAIN BroadcastPlays(c) |-> BroadcastPlays(c)[i].event]

\* C19: the play events broadcast in a session are its move history: the
\* creator's connection, subscribed from the start, has received while it is
\* open exactly the events of the history, in order, each once; and on every
\* subscribed connection each broadcast play event reports a move of the
\* history, no move twice, under the player its sender plays.
C19_BroadcastsAreHistory ==
    /\ \A g \in Conn : (CreatorAlive(g) /\ open[g]) =>
           BroadcastPayloads(g) = HistoryEvents(game[g].moves)
    /\ \A c \in Conn : ref[c] # NoRef =>
           LET moves == game[ref[c].game].moves
               plays == BroadcastPlays(c)
           IN  \A i \in DOMAIN plays :
                   /\ \E k \in DOMAIN moves :
                          plays[i].event = HistoryEvents(moves)[k]
                   /\ \A j \in DOMAIN plays :
                          plays[j].event = plays[i].event => j = i
                   /\ plays[i].event.player =
                          (IF plays[i].from = ref[c].game
                           THEN PLAYER1 ELSE PLAYER2)

\* C19 witness: both players have moved, a further move was rejected, and the
\* creator has received the two play events and no third.
C19_Witness ==
    \E g \in Conn : \E c \in Conn :
        /\ CreatorAlive(g)
        /\ open[g]
        /\ ref[c].game = g
        /\ Len(game[g].moves) = 2
        /\ game[g].moves[1].player # game[g].moves[2].player
        /\ Len(BroadcastPlays(g)) = 2
        /\ Len(recvd[c]) >= 1
        /\ recvd[c][Len(recvd[c])].event = ErrorEvent(SlotFull)

\* The handler of connection c returns in this step.
Exits(c) == pc[c] # "Closed" /\ pc'[c] = "Closed"

\* C20: under fair scheduling a handler whose connection has closed reaches
\* Closed, and so does, whatever its client does, a handler that was given an
\* unknown token; when a creator's handler exits both its registry entries
\* are gone, and when a joiner's or a watcher's handler exits its connection
\* is in no connection set.
C20_HandlersTerminate ==
    /\ \A c \in Conn :
           (pc[c] \in {"Playing", "Watching"} /\ ~open[c]) ~> (pc[c] = "Closed")
    /\ \A c \in Conn : (pc[c] = "NotFound") ~> (pc[c] = "Closed")
    /\ [][\A c \in Conn : Exits(c) =>
             /\ role[c] = "creator" =>
                    NewToken(c) \notin DOMAIN JOIN' \cup DOMAIN WATCH'
             /\ role[c] \in {"joiner", "watcher"} =>
                    \A s \in Conn : c \notin connected'[s]
             /\ ref'[c] = NoRef
             /\ ~open'[c]
       ]_vars

\* C20 witness: a joiner has moved in a game and every handler but the
\* creator's has exited: the creator is alone in the connection set of its
\* session, which is still registered.
C20_Witness ==
    \E g \in Conn :
        /\ CreatorAlive(g)
        /\ \E i \in DOMAIN game[g].moves : game[g].moves[i].player = PLAYER2
        /\ \A x \in Conn \ {g} : pc[x] = "Closed"
        /\ connected[g] = {g}
        /\ g \in DOMAIN JOIN \cap DOMAIN WATCH

====
